---- MODULE Spec2Model ----
(***************************************************************************)
(* MedTrack (src/app.py): a Flask application that keeps users and         *)
(* appointments in two process-wide lists and the caller's identity in    *)
(* the Flask session.  One browser (one session cookie) talks to the      *)
(* application; every request is one atomic step.  A view function is an  *)
(* operator from the state and the request to its Outcome: the lists and  *)
(* the session it leaves behind, and the response it returns.             *)
(***************************************************************************)
EXTENDS Integers, Sequences, FiniteSets, TLC

VARIABLES users, appointments, session

vars == <<users, appointments, session>>

----------------------------------------------------------------------------
(* Bounds of the model *)

MaxUsers == 3
MaxAppts == 2

----------------------------------------------------------------------------
(* Values *)

\* Python's None (a missing form field, a failed lookup, an absent session key)
None == "None"
\* a key that is not in a dict
Absent == "<absent>"

Emails == {"a@x.com", "b@x.com", "c@x.com"}
Passwords == {"pw1", "pw2"}
\* values of the form field userType / role that a caller can post
UserTypes == {"patient", "doctor", "admin"}

\* doctor_id values a caller can post: the first two Python indexes of the store,
\* and the first index that is past the end of a store that holds every email
DoctorIds == {0, 1, Cardinality(Emails)}

\* appointment identifiers the URL of a request can carry
ApptIds == 1 .. (MaxAppts + 1)

\* the forms posted to /doctor/submit-diagnosis (the second leaves a field out)
DiagnosisForms ==
    { [diagnosis |-> "flu",  treatment_plan |-> "rest", prescription |-> "rx1"],
      [diagnosis |-> "cold", treatment_plan |-> None,   prescription |-> "rx2"] }

\* the forms posted to /book-appointment besides doctor_id
BookingForms ==
    { [appointment_date |-> "2024-05-01", appointment_time |-> "10:00", symptoms |-> "cough"] }

\* datetime.now() formatted
Timestamps == {"2024-05-01 09:00:00"}

\* the forms posted to /signup
SignupForm(t, n, e, p, c) ==
    [userType |-> t, name |-> n, email |-> e, password |-> p, confirm_password |-> c]

SignupForms ==
    { SignupForm("patient", "Pat",   "a@x.com", "pw1", "pw1"),
      SignupForm("patient", "Bo",    "b@x.com", "pw2", "pw2"),
      SignupForm("doctor",  "Bea",   "b@x.com", "pw1", "pw1"),
      SignupForm("admin",   "Root",  "b@x.com", "pw1", "pw1"),
      SignupForm("doctor",  "Cy",    "c@x.com", "pw1", "pw1"),
      SignupForm("patient", "Cy",    "c@x.com", "pw1", "pw2"),
      SignupForm("patient", "",      "c@x.com", "pw1", "pw1") }

----------------------------------------------------------------------------
(* werkzeug.security *)

Salts == {"salt"}

\* generate_password_hash: a salted one-way digest, never the password itself
generate_password_hash(password, salt) == <<"scrypt", salt, password>>

\* check_password_hash: recomputes the digest of the candidate with the stored salt
check_password_hash(pwhash, password) ==
    pwhash = generate_password_hash(password, pwhash[2])

----------------------------------------------------------------------------
(* Python helpers *)

Min(S) == CHOOSE i \in S : \A j \in S : i <= j

\* next((i for i, u in enumerate(seq) if P(u)), None) as a 1-based position, 0 for None
FirstIndex(S) == IF S = {} THEN 0 ELSE Min(S)

\* seq[i] for a Python index i: the 1-based position it denotes, 0 for IndexError
PyIndex(len, i) ==
    IF 0 <= i /\ i < len THEN i + 1
    ELSE IF i < 0 /\ 0 - len <= i THEN len + i + 1
    ELSE 0

\* a string is modelled as the sequence of its characters where it is parsed
Digits == <<"0", "1", "2", "3", "4", "5", "6", "7", "8", "9">>

IsDigit(c) == \E k \in 1 .. Len(Digits) : Digits[k] = c

DigitValue(c) == (CHOOSE k \in 1 .. Len(Digits) : Digits[k] = c) - 1

RECURSIVE DigitsValue(_)
DigitsValue(s) ==
    IF s = <<>> THEN 0
    ELSE DigitsValue(SubSeq(s, 1, Len(s) - 1)) * Len(Digits) + DigitValue(s[Len(s)])

AllDigits(s) == s # <<>> /\ \A k \in 1 .. Len(s) : IsDigit(s[k])

\* int(s): [ok |-> FALSE] stands for the ValueError / TypeError it raises
PyInt(s) ==
    IF AllDigits(s) THEN [ok |-> TRUE, value |-> DigitsValue(s)]
    ELSE IF s # <<>> /\ Head(s) = "-" /\ AllDigits(Tail(s))
    THEN [ok |-> TRUE, value |-> 0 - DigitsValue(Tail(s))]
    ELSE [ok |-> FALSE, value |-> 0]

\* the decimal text of an integer, as a browser form carries it
RECURSIVE PyStr(_)
PyStr(i) ==
    IF i < 0 THEN <<"-">> \o PyStr(0 - i)
    ELSE IF i < Len(Digits) THEN <<Digits[i + 1]>>
    ELSE PyStr(i \div Len(Digits)) \o <<Digits[(i % Len(Digits)) + 1]>>

\* the doctor_id texts a caller can post: every number of DoctorIds, a text that is
\* no number, and the empty text
DoctorIdInputs == {PyStr(i) : i \in DoctorIds} \cup {<<"a", "b", "c">>, <<>>}

----------------------------------------------------------------------------
(* Session *)

NoSession == [user |-> None, role |-> None]

\* a guard that forgets the role
NotLoggedInAs_AnyRole(role) == session.user = None

\* 'user' not in session or session.get('role') != role
NotLoggedInAs(role) == session.user = None \/ session.role # role

----------------------------------------------------------------------------
(* Responses: what the last request answered *)

\* what a rendered template is given
NoData ==
    [user |-> 0, appt |-> 0, listing |-> <<>>, pending |-> 0, completed |-> 0,
     total |-> 0, doctors |-> {}]

Response(kind, target, flash, data, mail) ==
    [kind |-> kind, target |-> target, flash |-> flash, data |-> data, mail |-> mail]

NoMail == <<>>

Redirect(target, flash) == Response("redirect", target, flash, NoData, NoMail)
Render(template, data) == Response("render", template, None, data, NoMail)
\* an exception that leaves the view function: Flask answers 500
ServerError(exc) == Response("error", exc, None, NoData, NoMail)

\* what a request leaves behind and returns
Outcome(u, a, s, r) == [users |-> u, appointments |-> a, session |-> s, resp |-> r]

\* a request that changes nothing
Reply(r) == Outcome(users, appointments, session, r)

\* the step of the application that serves a request with this outcome
Handle(out) ==
    /\ users' = out.users
    /\ appointments' = out.appointments
    /\ session' = out.session

----------------------------------------------------------------------------
(* Lookups in the user store *)

\* any(u['email'] == email for u in users)
EmailRegistered(email) == \E i \in 1 .. Len(users) : users[i].email = email

\* next((u for u in users if u['email'] == email), None)
FindByEmail(email) == FirstIndex({i \in 1 .. Len(users) : users[i].email = email})

\* next((u for u in users if u['email'] == email and u['type'] == role), None)
FindByEmailAndRole(email, role) ==
    FirstIndex({i \in 1 .. Len(users) : users[i].email = email /\ users[i].type = role})

\* next((a for a in appointments if a['appointment_id'] == appointment_id), None)
FindAppointment(appointment_id) ==
    FirstIndex({k \in 1 .. Len(appointments) :
                    appointments[k].appointment_id = appointment_id})

----------------------------------------------------------------------------
(* / *)

\* GET /
home == Reply(Render("index.html", NoData))

----------------------------------------------------------------------------
(* /signup *)

\* the role-specific attributes signup adds to the record
RoleAttrs(user_type) ==
    IF user_type = "patient" THEN {"age", "address", "mobile"}
    ELSE IF user_type = "doctor" THEN {"age", "specialization", "mobile"}
    ELSE {}

NewUser(form, salt) ==
    [id       |-> Len(users) + 1,
     type     |-> form.userType,
     name     |-> form.name,
     email    |-> form.email,
     password |-> generate_password_hash(form.password, salt),
     attrs    |-> RoleAttrs(form.userType)]

\* not all([user_type, name, email, password, confirm_password])
MissingField(form) ==
    \E f \in {"userType", "name", "email", "password", "confirm_password"} :
        form[f] \in {"", None}

\* a signup that forgets to look the email up
SignupRejection_NoDuplicateCheck(form) ==
    IF MissingField(form) THEN "Please fill in all required fields."
    ELSE IF form.password # form.confirm_password THEN "Passwords do not match."
    ELSE None

\* the three checks a posted form has to pass before it is stored
SignupRejection(form) ==
    IF MissingField(form) THEN "Please fill in all required fields."
    ELSE IF form.password # form.confirm_password THEN "Passwords do not match."
    ELSE IF EmailRegistered(form.email) THEN "Email already registered."
    ELSE None

\* GET /signup
signup_get == Reply(Render("signup.html", NoData))

\* a signup that puts the new user in front
signup_post_Prepends(form, salt) ==
    IF SignupRejection(form) # None
    THEN Reply(Redirect("signup", SignupRejection(form)))
    ELSE Outcome(<<NewUser(form, salt)>> \o users, appointments, session,
                 Redirect("login", "Signup successful. Please log in."))

\* POST /signup
signup_post(form, salt) ==
    IF SignupRejection(form) # None
    THEN Reply(Redirect("signup", SignupRejection(form)))
    ELSE Outcome(Append(users, NewUser(form, salt)), appointments, session,
                 Redirect("login", "Signup successful. Please log in."))

----------------------------------------------------------------------------
(* /login, /logout *)

\* url_for(f"{role}_dashboard") raises BuildError unless the endpoint exists
DashboardEndpoints == {"patient_dashboard", "doctor_dashboard"}

DashboardOf(role) ==
    IF role = "patient" THEN "patient_dashboard"
    ELSE IF role = "doctor" THEN "doctor_dashboard"
    ELSE None

\* user and check_password_hash(user['password'], password)
CredentialsMatch(role, email, password) ==
    LET u == FindByEmailAndRole(email, role) IN
        u # 0 /\ check_password_hash(users[u].password, password)

\* GET /login
login_get == Reply(Render("login.html", NoData))

\* a login that looks the user up by email alone and takes the role from the form
login_post_RoleFromForm(role, email, password, cookie_saved) ==
    IF /\ FindByEmail(email) # 0
       /\ check_password_hash(users[FindByEmail(email)].password, password)
    THEN LET logged == [user |-> email, role |-> role] IN
         IF DashboardOf(role) \in DashboardEndpoints
         THEN Outcome(users, appointments, logged,
                      Redirect(DashboardOf(role), "Login successful!"))
         ELSE Outcome(users, appointments, IF cookie_saved THEN logged ELSE session,
                      ServerError("BuildError"))
    ELSE Reply(Redirect("login", "Invalid credentials or role mismatch."))

\* a login that tells a registered email from an unknown one
login_post_TellsKnownEmail(role, email, password, cookie_saved) ==
    IF CredentialsMatch(role, email, password)
    THEN LET user == users[FindByEmailAndRole(email, role)]
             logged == [user |-> user.email, role |-> user.type] IN
         IF DashboardOf(role) \in DashboardEndpoints
         THEN Outcome(users, appointments, logged,
                      Redirect(DashboardOf(role), "Login successful!"))
         ELSE Outcome(users, appointments, IF cookie_saved THEN logged ELSE session,
                      ServerError("BuildError"))
    ELSE IF EmailRegistered(email)
    THEN Reply(Redirect("login", "Wrong password or role."))
    ELSE Reply(Redirect("login", "Invalid credentials or role mismatch."))

\* POST /login.  When url_for raises after the session was written, the session
\* cookie is sent with the 500 answer by a production server and is not sent when
\* the exception propagates (debug=True): cookie_saved is either.
login_post(role, email, password, cookie_saved) ==
    IF CredentialsMatch(role, email, password)
    THEN LET user == users[FindByEmailAndRole(email, role)]
             logged == [user |-> user.email, role |-> user.type] IN
         IF DashboardOf(role) \in DashboardEndpoints
         THEN Outcome(users, appointments, logged,
                      Redirect(DashboardOf(role), "Login successful!"))
         ELSE Outcome(users, appointments, IF cookie_saved THEN logged ELSE session,
                      ServerError("BuildError"))
    ELSE Reply(Redirect("login", "Invalid credentials or role mismatch."))

\* GET /logout
\* a logout that only answers
logout_KeepsSession ==
    Outcome(users, appointments, session, Redirect("login", "Logged out successfully."))

logout ==
    Outcome(users, appointments, NoSession, Redirect("login", "Logged out successfully."))

----------------------------------------------------------------------------
(* Dashboards *)

\* [a for a in appointments if a['patient_email'] == email], as positions in the ledger
list_for_patient(email) ==
    SelectSeq([k \in 1 .. Len(appointments) |-> k],
              LAMBDA k : appointments[k].patient_email = email)

\* a doctor listing that takes doctor_id for a position counted from 1
list_for_doctor_OneBased(doctor_id) ==
    SelectSeq([k \in 1 .. Len(appointments) |-> k],
              LAMBDA k : appointments[k].doctor_id = doctor_id + 1)

\* [a for a in appointments if a['doctor_id'] == doctor_id], as positions in the ledger
list_for_doctor(doctor_id) ==
    SelectSeq([k \in 1 .. Len(appointments) |-> k],
              LAMBDA k : appointments[k].doctor_id = doctor_id)

\* a count that forgets the status
CountStatus_AnyStatus(listing, status) == Len(listing)

\* sum(1 for a in listing if a['status'] == status)
CountStatus(listing, status) ==
    Cardinality({j \in 1 .. Len(listing) : appointments[listing[j]].status = status})

\* [i for i, u in enumerate(users) if u['type'] == 'doctor'], Python indexes
doctor_list == {i - 1 : i \in {j \in 1 .. Len(users) : users[j].type = "doctor"}}

DashboardData(user, listing) ==
    [user |-> user,
     appt |-> 0,
     listing |-> [j \in 1 .. Len(listing) |-> appointments[listing[j]].appointment_id],
     pending |-> CountStatus(listing, "Pending"),
     completed |-> CountStatus(listing, "Completed"),
     total |-> Len(listing),
     doctors |-> {}]

\* GET /patient/dashboard
patient_dashboard ==
    IF NotLoggedInAs("patient")
    THEN Reply(Redirect("login", "Please log in as a patient."))
    ELSE LET user == FindByEmail(session.user) IN
         IF user = 0
         THEN Reply(ServerError("TypeError"))
         ELSE Reply(Render("patient_dashboard.html",
                           [DashboardData(user, list_for_patient(users[user].email))
                               EXCEPT !.doctors = doctor_list]))

\* GET /doctor/dashboard
doctor_dashboard ==
    IF NotLoggedInAs("doctor")
    THEN Reply(Redirect("login", "Please log in as a doctor."))
    ELSE LET user == FindByEmail(session.user) IN
         IF user = 0
         THEN Reply(Redirect("login", "Doctor not found."))
         ELSE LET doctor_id == FindByEmail(users[user].email) - 1 IN
              Reply(Render("doctor_dashboard.html",
                           DashboardData(user, list_for_doctor(doctor_id))))

----------------------------------------------------------------------------
(* Notification *)

\* send_email: every exception of the SMTP exchange is caught and logged; what is
\* left of the call is the log line.  delivered is the outcome of the exchange.
send_email(to_email, delivered) ==
    <<to_email, IF delivered THEN "Email sent" ELSE "Email failed to send">>

----------------------------------------------------------------------------
(* /book-appointment *)

\* an appointment created with its result fields present and empty
NewAppointment_EmptyResults(doctor_id, form, now) ==
    [appointment_id |-> Len(appointments) + 1,
     patient_email  |-> session.user,
     doctor_id      |-> doctor_id,
     date           |-> form.appointment_date,
     time           |-> form.appointment_time,
     status         |-> "Pending",
     symptoms       |-> form.symptoms,
     patient_id     |-> FindByEmail(session.user) - 1,
     created_at     |-> now,
     diagnosis      |-> None,
     treatment_plan |-> None,
     prescription   |-> None]

NewAppointment(doctor_id, form, now) ==
    [appointment_id |-> Len(appointments) + 1,
     patient_email  |-> session.user,
     doctor_id      |-> doctor_id,
     date           |-> form.appointment_date,
     time           |-> form.appointment_time,
     status         |-> "Pending",
     symptoms       |-> form.symptoms,
     patient_id     |-> FindByEmail(session.user) - 1,
     created_at     |-> now,
     diagnosis      |-> Absent,
     treatment_plan |-> Absent,
     prescription   |-> Absent]

\* GET /book-appointment
book_appointment_get ==
    IF NotLoggedInAs("patient")
    THEN Reply(Redirect("login", "Please log in as a patient to book an appointment."))
    ELSE Reply(Render("book_appointment.html", [NoData EXCEPT !.doctors = doctor_list]))

\* a booking that lets a failed notification escape send_email
book_appointment_post_MailRaises(doctor_id_text, form, now, delivered) ==
    IF NotLoggedInAs("patient")
    THEN Reply(Redirect("login", "Please log in as a patient to book an appointment."))
    ELSE IF ~PyInt(doctor_id_text).ok
    THEN Reply(ServerError("ValueError"))
    ELSE IF FindByEmail(session.user) = 0
    THEN Reply(ServerError("StopIteration"))
    ELSE LET doctor_id == PyInt(doctor_id_text).value
             doctor == PyIndex(Len(users), doctor_id)
             booked == Append(appointments, NewAppointment(doctor_id, form, now)) IN
         IF doctor = 0
         THEN Outcome(users, booked, session, ServerError("IndexError"))
         ELSE IF ~delivered
         THEN Outcome(users, booked, session,
                      Response("error", "SMTPException", None, NoData,
                               send_email(users[doctor].email, delivered)))
         ELSE Outcome(users, booked, session,
                      Response("redirect", "patient_dashboard",
                               "Appointment booked successfully! Notification sent to doctor.",
                               NoData, send_email(users[doctor].email, delivered)))

\* POST /book-appointment
book_appointment_post(doctor_id_text, form, now, delivered) ==
    IF NotLoggedInAs("patient")
    THEN Reply(Redirect("login", "Please log in as a patient to book an appointment."))
    ELSE IF ~PyInt(doctor_id_text).ok
    THEN Reply(ServerError("ValueError"))
    ELSE IF FindByEmail(session.user) = 0
    THEN Reply(ServerError("StopIteration"))
    ELSE LET doctor_id == PyInt(doctor_id_text).value
             doctor == PyIndex(Len(users), doctor_id)
             booked == Append(appointments, NewAppointment(doctor_id, form, now)) IN
         IF doctor = 0
         THEN Outcome(users, booked, session, ServerError("IndexError"))
         ELSE Outcome(users, booked, session,
                      Response("redirect", "patient_dashboard",
                               "Appointment booked successfully! Notification sent to doctor.",
                               NoData, send_email(users[doctor].email, delivered)))

----------------------------------------------------------------------------
(* Viewing one appointment *)

ViewData(appt, user) == [NoData EXCEPT !.appt = appt, !.user = user]

\* GET /view-appointment/<appointment_id>
view_appointment_patient(appointment_id) ==
    LET appt == FindAppointment(appointment_id) IN
    IF appt = 0 \/ session.user # appointments[appt].patient_email
    THEN Reply(Redirect("patient_dashboard", "Access denied."))
    ELSE LET doctor == PyIndex(Len(users), appointments[appt].doctor_id) IN
         IF doctor = 0
         THEN Reply(ServerError("IndexError"))
         ELSE Reply(Render("view_appointment_patient.html", ViewData(appointment_id, doctor)))

\* GET /doctor/view-appointment/<appointment_id>
view_appointment_doctor(appointment_id) ==
    LET appt == FindAppointment(appointment_id) IN
    IF appt = 0
    THEN Reply(Redirect("doctor_dashboard", "Appointment not found."))
    ELSE LET patient == PyIndex(Len(users), appointments[appt].patient_id) IN
         IF patient = 0
         THEN Reply(ServerError("IndexError"))
         ELSE Reply(Render("view_appointment_doctor.html", ViewData(appointment_id, patient)))

----------------------------------------------------------------------------
(* /doctor/submit-diagnosis/<appointment_id> *)

\* a submission that keeps the first diagnosis of an appointment
Diagnosed_KeepFirst(appt, form) ==
    IF appt.status = "Completed"
    THEN appt
    ELSE [appt EXCEPT !.diagnosis = form.diagnosis,
                      !.treatment_plan = form.treatment_plan,
                      !.prescription = form.prescription,
                      !.status = "Completed"]

\* a submission that flips the status instead of setting it
Diagnosed_Toggle(appt, form) ==
    [appt EXCEPT !.diagnosis = form.diagnosis,
                 !.treatment_plan = form.treatment_plan,
                 !.prescription = form.prescription,
                 !.status = IF appt.status = "Pending" THEN "Completed" ELSE "Pending"]

\* a submission that stores the prescription as the treatment plan
Diagnosed_SwapFields(appt, form) ==
    [appt EXCEPT !.diagnosis = form.diagnosis,
                 !.treatment_plan = form.prescription,
                 !.prescription = form.treatment_plan,
                 !.status = "Completed"]

Diagnosed(appt, form) ==
    [appt EXCEPT !.diagnosis = form.diagnosis,
                 !.treatment_plan = form.treatment_plan,
                 !.prescription = form.prescription,
                 !.status = "Completed"]

\* POST /doctor/submit-diagnosis/<appointment_id>
submit_diagnosis(appointment_id, form) ==
    IF NotLoggedInAs("doctor")
    THEN Reply(Redirect("login", "Unauthorized access."))
    ELSE LET appt == FindAppointment(appointment_id) IN
         IF appt # 0
         THEN Outcome(users,
                      [appointments EXCEPT ![appt] = Diagnosed(appointments[appt], form)],
                      session,
                      Redirect("doctor_dashboard", "Diagnosis submitted successfully."))
         ELSE Reply(Redirect("doctor_dashboard", "Appointment not found."))

----------------------------------------------------------------------------
(* Profiles and the simulated password reset *)

\* GET /patient/profile
patient_profile ==
    LET user == FindByEmail(session.user) IN
    IF user = 0 \/ session.role # "patient"
    THEN Reply(Redirect("login", "Unauthorized access."))
    ELSE Reply(Render("patient_profile.html", [NoData EXCEPT !.user = user]))

\* GET /doctor/profile
doctor_profile ==
    LET user == FindByEmail(session.user) IN
    IF user = 0 \/ session.role # "doctor"
    THEN Reply(Redirect("login", "Unauthorized access."))
    ELSE Reply(Render("doctor_profile.html", [NoData EXCEPT !.user = user]))

\* GET /forgot-password
forgot_password_get == Reply(Render("forgot_password.html", NoData))

\* POST /forgot-password
forgot_password_post(email) ==
    IF FindByEmail(email) # 0
    THEN Reply(Redirect("login", "Password reset link sent (simulated)."))
    ELSE Reply(Redirect("login", "Email not found."))

----------------------------------------------------------------------------
(* The application: both lists start empty, no session; every step serves one   *)
(* request.  The lists are capped at MaxUsers and MaxAppts.                     *)

Init ==
    /\ users = <<>>
    /\ appointments = <<>>
    /\ session = NoSession

\* the requests the model lets through: those that keep the lists within the caps
Served(out) ==
    /\ Len(out.users) <= MaxUsers
    /\ Len(out.appointments) <= MaxAppts
    /\ Handle(out)

Home == Served(home)

Signup ==
    \/ Served(signup_get)
    \/ \E form \in SignupForms, salt \in Salts : Served(signup_post(form, salt))

\* whether the cookie is saved is open only where url_for raises
CookieOutcomes(role) == IF DashboardOf(role) \in DashboardEndpoints THEN {TRUE} ELSE BOOLEAN

Login ==
    \/ Served(login_get)
    \/ \E role \in UserTypes, email \in Emails, password \in Passwords :
          \E cookie_saved \in CookieOutcomes(role) :
              Served(login_post(role, email, password, cookie_saved))

Logout == Served(logout)

PatientDashboard == Served(patient_dashboard)

DoctorDashboard == Served(doctor_dashboard)

BookAppointment ==
    \/ Served(book_appointment_get)
    \/ \E doctor_id_text \in DoctorIdInputs, form \in BookingForms, now \in Timestamps,
          delivered \in BOOLEAN :
            Served(book_appointment_post(doctor_id_text, form, now, delivered))

ViewAppointmentPatient ==
    \E appointment_id \in ApptIds : Served(view_appointment_patient(appointment_id))

ViewAppointmentDoctor ==
    \E appointment_id \in ApptIds : Served(view_appointment_doctor(appointment_id))

SubmitDiagnosis ==
    \E appointment_id \in ApptIds, form \in DiagnosisForms :
        Served(submit_diagnosis(appointment_id, form))

PatientProfile == Served(patient_profile)

DoctorProfile == Served(doctor_profile)

ForgotPassword ==
    \/ Served(forgot_password_get)
    \/ \E email \in Emails : Served(forgot_password_post(email))

Next ==
    \/ Home
    \/ Signup
    \/ Login
    \/ Logout
    \/ PatientDashboard
    \/ DoctorDashboard
    \/ BookAppointment
    \/ ViewAppointmentPatient
    \/ ViewAppointmentDoctor
    \/ SubmitDiagnosis
    \/ PatientProfile
    \/ DoctorProfile
    \/ ForgotPassword

Spec == Init /\ [][Next]_vars

----------------------------------------------------------------------------
(* Vocabulary of the properties *)

UserIndexes == 1 .. Len(users)
LedgerIndexes == 1 .. Len(appointments)

\* the Python indexes of the users of a role
IndexesOfRole(role) == {i - 1 : i \in {j \in UserIndexes : users[j].type = role}}

PatientSession == session.user # None /\ session.role = "patient"
DoctorSession == session.user # None /\ session.role = "doctor"

BookedFlash == "Appointment booked successfully! Notification sent to doctor."

\* the response sends the caller to the login page
SentToLogin(r) == r.kind = "redirect" /\ r.target = "login"

\* the number of places of a sequence of ledger positions that hold appointment id
Occurrences(listing, id) ==
    Cardinality({j \in 1 .. Len(listing) : appointments[listing[j]].appointment_id = id})

----------------------------------------------------------------------------
(* C1 *)

\* C1: no two records of the user store share an email, and a signup whose email is
\* that of a registered user, of either role, is rejected (the caller is sent back
\* to the signup form, with "Email already registered." when the form is otherwise
\* valid) and leaves the user store unchanged.
C1_UniqueEmail ==
    /\ \A i, j \in UserIndexes : i # j => users[i].email # users[j].email
    /\ \A form \in SignupForms, salt \in Salts :
         (\E i \in UserIndexes : users[i].email = form.email) =>
            LET out == signup_post(form, salt) IN
            /\ out.users = users
            /\ out.resp.kind = "redirect" /\ out.resp.target = "signup"
            /\ (~MissingField(form) /\ form.password = form.confirm_password)
                  => out.resp.flash = "Email already registered."

\* a full store, for an email of which a form of another role can still be posted
C1_Witness ==
    /\ Len(users) = MaxUsers
    /\ \E form \in SignupForms, i \in UserIndexes :
         /\ users[i].email = form.email /\ users[i].type # form.userType
         /\ form.password = form.confirm_password /\ ~MissingField(form)

----------------------------------------------------------------------------
(* C2 *)

\* C2: every appointment of the ledger has a doctor_id that is the index of an
\* existing doctor, and a patient_id and patient_email that are those of one
\* existing patient.
C2_AppointmentsResolve ==
    \A k \in LedgerIndexes :
        /\ appointments[k].doctor_id \in IndexesOfRole("doctor")
        /\ appointments[k].patient_id \in IndexesOfRole("patient")
        /\ users[appointments[k].patient_id + 1].email = appointments[k].patient_email

----------------------------------------------------------------------------
(* C3 *)

\* C3: a step in which a patient session posts to Book Appointment a doctor_id that
\* is not the index of an existing doctor leaves the ledger unchanged, and the
\* response is a handled error, not a booking.
C3_UnknownDoctorRejected ==
    [][\A d \in DoctorIds, form \in BookingForms, now \in Timestamps, delivered \in BOOLEAN :
          LET out == book_appointment_post(PyStr(d), form, now, delivered) IN
          (PatientSession /\ d \notin IndexesOfRole("doctor") /\ Handle(out)) =>
              /\ appointments' = appointments
              /\ out.resp.kind = "redirect"
              /\ out.resp.flash # BookedFlash]_vars

----------------------------------------------------------------------------
(* C4 *)

\* C4, the booking: for a patient session and the index of an existing doctor, Book
\* Appointment appends exactly one appointment, with a fresh identifier, status
\* Pending, created_at set, the session's patient and the chosen doctor, and
\* reports the booking.
C4_Booking ==
    PatientSession =>
        \A d \in IndexesOfRole("doctor"), form \in BookingForms, now \in Timestamps,
           delivered \in BOOLEAN :
            LET out == book_appointment_post(PyStr(d), form, now, delivered)
                new == out.appointments[Len(out.appointments)] IN
            /\ Len(out.appointments) = Len(appointments) + 1
            /\ SubSeq(out.appointments, 1, Len(appointments)) = appointments
            /\ \A k \in LedgerIndexes : appointments[k].appointment_id # new.appointment_id
            /\ new.status = "Pending"
            /\ new.created_at = now
            /\ new.patient_email = session.user
            /\ new.doctor_id = d
            /\ out.resp.flash = BookedFlash

\* C4, the listings: an appointment made with the index of an existing doctor is
\* once in the listing of the patient dashboard of its patient and once in the
\* listing of the doctor dashboard of its doctor, and in the listing of no other
\* patient and no other doctor.
C4_Listings ==
    \A k \in LedgerIndexes :
        appointments[k].doctor_id \in IndexesOfRole("doctor") =>
            \A i \in UserIndexes :
                LET id == appointments[k].appointment_id
                    asPatient == Occurrences(list_for_patient(users[i].email), id)
                    asDoctor == Occurrences(list_for_doctor(FindByEmail(users[i].email) - 1), id) IN
                /\ users[i].type = "patient" =>
                     asPatient = (IF users[i].email = appointments[k].patient_email THEN 1 ELSE 0)
                /\ users[i].type = "doctor" =>
                     asDoctor = (IF i - 1 = appointments[k].doctor_id THEN 1 ELSE 0)

\* C4: Book Appointment with a patient session and an existing doctor adds exactly
\* one Pending appointment that is listed exactly once for its patient and its
\* doctor and for nobody else.
C4_BookingListed == C4_Booking /\ C4_Listings

\* two patients and a doctor, both patients with an appointment with that doctor,
\* and a patient session that can book
C4_Witness ==
    /\ PatientSession
    /\ Len(appointments) = MaxAppts
    /\ \A k \in LedgerIndexes : appointments[k].doctor_id \in IndexesOfRole("doctor")
    /\ appointments[1].patient_email # appointments[2].patient_email

----------------------------------------------------------------------------
(* C5 *)

\* the fields of an appointment that Submit Diagnosis never writes
Booked(a) ==
    <<a.appointment_id, a.patient_email, a.patient_id, a.doctor_id, a.date, a.time,
      a.symptoms, a.created_at>>

\* the step is a Book Appointment post of a patient session
BookingStep ==
    /\ PatientSession
    /\ \E text \in DoctorIdInputs, form \in BookingForms, now \in Timestamps,
          delivered \in BOOLEAN :
            Handle(book_appointment_post(text, form, now, delivered))

\* the step is a Submit Diagnosis post of a doctor session
DiagnosisStep ==
    /\ DoctorSession
    /\ \E appointment_id \in ApptIds, form \in DiagnosisForms :
          Handle(submit_diagnosis(appointment_id, form))

\* C5: in every step, no appointment leaves the ledger or changes place; an
\* appointment enters only at the end, one at a time, Pending, in a Book
\* Appointment step; a status changes only in a Submit Diagnosis step and only from
\* Pending to Completed, so that a Completed appointment is never Pending again.
C5_Lifecycle ==
    [][/\ Len(appointments') >= Len(appointments)
       /\ \A k \in LedgerIndexes :
            /\ Booked(appointments'[k]) = Booked(appointments[k])
            /\ appointments[k].status = "Completed" => appointments'[k].status = "Completed"
            /\ appointments'[k].status # appointments[k].status =>
                    /\ appointments[k].status = "Pending"
                    /\ appointments'[k].status = "Completed"
                    /\ DiagnosisStep
       /\ Len(appointments') > Len(appointments) =>
            /\ Len(appointments') = Len(appointments) + 1
            /\ appointments'[Len(appointments')].status = "Pending"
            /\ BookingStep]_vars

\* a ledger with a Completed appointment before a Pending one
C5_Witness ==
    /\ Len(appointments) = MaxAppts
    /\ appointments[1].status = "Completed"
    /\ appointments[2].status = "Pending"

----------------------------------------------------------------------------
(* C6 *)

\* C6: for a doctor session, Submit Diagnosis on an identifier of the ledger makes
\* that appointment Completed with exactly the submitted diagnosis, treatment_plan
\* and prescription, changes nothing else of it and no other appointment, and
\* reports success; on an identifier that is not in the ledger it reports
\* "Appointment not found." and leaves the ledger as it is.
C6_SubmitDiagnosis ==
    DoctorSession =>
        \A appointment_id \in ApptIds, form \in DiagnosisForms :
            LET out == submit_diagnosis(appointment_id, form)
                hits == {k \in LedgerIndexes : appointments[k].appointment_id = appointment_id} IN
            /\ out.users = users /\ out.session = session
            /\ Len(out.appointments) = Len(appointments)
            /\ \A k \in LedgerIndexes \ hits : out.appointments[k] = appointments[k]
            /\ \A k \in hits :
                 /\ out.appointments[k].status = "Completed"
                 /\ out.appointments[k].diagnosis = form.diagnosis
                 /\ out.appointments[k].treatment_plan = form.treatment_plan
                 /\ out.appointments[k].prescription = form.prescription
                 /\ Booked(out.appointments[k]) = Booked(appointments[k])
            /\ hits # {} => out.resp.flash = "Diagnosis submitted successfully."
            /\ hits = {} => /\ out.resp.flash = "Appointment not found."
                            /\ out.appointments = appointments

\* a doctor session, a diagnosed appointment and another one still Pending
C6_Witness ==
    /\ DoctorSession
    /\ Len(appointments) = MaxAppts
    /\ \E k \in LedgerIndexes, form \in DiagnosisForms :
         /\ appointments[k].status = "Completed"
         /\ appointments[k].diagnosis = form.diagnosis
         /\ appointments[k].treatment_plan = form.treatment_plan
         /\ appointments[k].prescription = form.prescription
    /\ \E k \in LedgerIndexes : appointments[k].status = "Pending"

----------------------------------------------------------------------------
(* C7 *)

\* C7: without a session of role patient, Book Appointment leaves the ledger
\* unchanged and sends the caller to login; without a session of role doctor,
\* Submit Diagnosis does the same.  So only a patient session appends and only a
\* doctor session modifies.
C7_SessionRequired ==
    /\ ~PatientSession =>
         \A text \in DoctorIdInputs, form \in BookingForms, now \in Timestamps,
            delivered \in BOOLEAN :
             LET out == book_appointment_post(text, form, now, delivered) IN
             out.appointments = appointments /\ SentToLogin(out.resp)
    /\ ~DoctorSession =>
         \A appointment_id \in ApptIds, form \in DiagnosisForms :
             LET out == submit_diagnosis(appointment_id, form) IN
             out.appointments = appointments /\ SentToLogin(out.resp)

\* a patient session facing a Pending appointment it may not diagnose, with room
\* left in the ledger and a doctor registered
C7_Witness ==
    /\ PatientSession
    /\ IndexesOfRole("doctor") # {}
    /\ Len(appointments) = 1
    /\ appointments[1].status = "Pending"

----------------------------------------------------------------------------
(* C8 *)

\* the response shows appointment id
Shows(r, template, id) == r.kind = "render" /\ r.target = template /\ r.data.appt = id

\* the session's email is the patient_email of appointment id
OwnAppointment(id) ==
    \E k \in LedgerIndexes :
        /\ appointments[k].appointment_id = id
        /\ appointments[k].patient_email = session.user

\* C8: the patient View Appointment shows an appointment only to the session whose
\* email is its patient_email, answers "Access denied." to every other request,
\* and always shows a patient session an appointment it booked itself.
C8_PatientViewOwnOnly ==
    \A id \in ApptIds :
        LET out == view_appointment_patient(id) IN
        /\ Shows(out.resp, "view_appointment_patient.html", id) => OwnAppointment(id)
        /\ ~OwnAppointment(id) => out.resp.flash = "Access denied."
        /\ (PatientSession /\ OwnAppointment(id)) =>
                Shows(out.resp, "view_appointment_patient.html", id)

----------------------------------------------------------------------------
(* C9 *)

\* C9: the doctor View Appointment shows an appointment only to a session of role
\* doctor, and shows a doctor session every appointment of the ledger, whoever its
\* doctor is.
C9_DoctorViewNeedsDoctorSession ==
    \A id \in ApptIds :
        LET out == view_appointment_doctor(id) IN
        /\ Shows(out.resp, "view_appointment_doctor.html", id) => DoctorSession
        /\ (DoctorSession /\ \E k \in LedgerIndexes : appointments[k].appointment_id = id)
                => Shows(out.resp, "view_appointment_doctor.html", id)

----------------------------------------------------------------------------
(* C10 *)

\* the user store holds a user with this email and this role whose digest the
\* password verifies against
Registered(role, email, password) ==
    \E i \in UserIndexes :
        /\ users[i].email = email
        /\ users[i].type = role
        /\ check_password_hash(users[i].password, password)

\* the login succeeded: the caller is told so and holds the session (email, role)
LoggedIn(out, role, email) ==
    /\ out.resp.flash = "Login successful!"
    /\ out.session = [user |-> email, role |-> role]

\* C10: a login succeeds, with the session set to (email, role), if and only if a
\* user with that email and that role is registered and the password verifies;
\* every other login leaves the session as it was.
C10_LoginIffRegistered ==
    \A role \in UserTypes, email \in Emails, password \in Passwords, cookie_saved \in BOOLEAN :
        LET out == login_post(role, email, password, cookie_saved) IN
        /\ LoggedIn(out, role, email) <=> Registered(role, email, password)
        /\ ~Registered(role, email, password) => out.session = session

----------------------------------------------------------------------------
(* C11 *)

\* the login attempts a caller can make
LoginAttempts == UserTypes \X Emails \X Passwords \X BOOLEAN

AttemptOutcome(t) == login_post(t[1], t[2], t[3], t[4])

\* an attempt that names no registered (role, email) pair with its password
FailingAttempt(t) == ~Registered(t[1], t[2], t[3])

\* C11: any two failing login attempts, whatever makes them fail (unknown email,
\* registered email under another role, wrong password), have the same outcome:
\* the same response, and the user store, the ledger and the session left as they
\* were.
C11_FailedLoginsAlike ==
    LET outcomes == {AttemptOutcome(t) : t \in {a \in LoginAttempts : FailingAttempt(a)}} IN
    /\ \A o1, o2 \in outcomes : o1 = o2
    /\ \A o \in outcomes :
         /\ o.users = users
         /\ o.appointments = appointments
         /\ o.session = session
         /\ SentToLogin(o.resp)

\* a store where all three causes of failure can be tried: an email nobody holds, a
\* user whose email fails under another role, and that user's wrong password
C11_Witness ==
    /\ \E email \in Emails : \A i \in UserIndexes : users[i].email # email
    /\ \E i \in UserIndexes, role \in UserTypes, password \in Passwords :
         /\ users[i].type # role
         /\ ~check_password_hash(users[i].password, password)
         /\ Registered(users[i].type, users[i].email, CHOOSE p \in Passwords : p # password)

----------------------------------------------------------------------------
(* C12 *)

\* C12: a booking does not depend on whether the notification is delivered: with
\* the exchange failing, the booking leaves the same user store, ledger and session
\* and answers with the same redirect and flash as with the exchange succeeding;
\* where a notification was attempted and failed, the appointment is recorded and
\* the patient is told the booking succeeded.
C12_BookingIgnoresDelivery ==
    \A text \in DoctorIdInputs, form \in BookingForms, now \in Timestamps :
        LET sent == book_appointment_post(text, form, now, TRUE)
            failed == book_appointment_post(text, form, now, FALSE) IN
        /\ failed.users = sent.users
        /\ failed.appointments = sent.appointments
        /\ failed.session = sent.session
        /\ failed.resp.kind = sent.resp.kind
        /\ failed.resp.target = sent.resp.target
        /\ failed.resp.flash = sent.resp.flash
        /\ failed.resp.mail # NoMail =>
             /\ failed.resp.mail[2] = "Email failed to send"
             /\ failed.resp.kind = "redirect"
             /\ failed.resp.flash = BookedFlash
             /\ Len(failed.appointments) = Len(appointments) + 1
             /\ failed.appointments[Len(appointments) + 1].status = "Pending"

\* a patient who has booked, and whose next booking would have its notification fail
C12_Witness ==
    /\ PatientSession
    /\ \E a \in LedgerIndexes : appointments[a].patient_email = session.user
    /\ \E text \in DoctorIdInputs, form \in BookingForms, now \in Timestamps :
         book_appointment_post(text, form, now, FALSE).resp.mail # NoMail

----------------------------------------------------------------------------
(* C13 *)

\* the places of a ledger that hold a patient's, or a doctor's, appointments
PatientPlaces(ledger, email) ==
    {k \in 1 .. Len(ledger) : ledger[k].patient_email = email}

DoctorPlaces(ledger, doctor_id) ==
    {k \in 1 .. Len(ledger) : ledger[k].doctor_id = doctor_id}

\* the three counts of a set of places: <<total, pending, completed>>
Counts(ledger, places) ==
    <<Cardinality(places),
      Cardinality({k \in places : ledger[k].status = "Pending"}),
      Cardinality({k \in places : ledger[k].status = "Completed"})>>

PatientCounts(ledger, email) == Counts(ledger, PatientPlaces(ledger, email))
DoctorCounts(ledger, doctor_id) == Counts(ledger, DoctorPlaces(ledger, doctor_id))

\* what a dashboard shows: <<total, pending, completed>>
Shown(r) == <<r.data.total, r.data.pending, r.data.completed>>

\* the position, counted from 0, of the session's user in the user store
SessionPosition == (CHOOSE i \in UserIndexes : users[i].email = session.user) - 1

\* every patient's and every doctor's dashboard shows the counts of the ledger
DashboardsCount ==
    /\ PatientSession =>
         /\ patient_dashboard.resp.kind = "render"
         /\ Shown(patient_dashboard.resp) = PatientCounts(appointments, session.user)
    /\ DoctorSession =>
         /\ doctor_dashboard.resp.kind = "render"
         /\ Shown(doctor_dashboard.resp) = DoctorCounts(appointments, SessionPosition)
    /\ \A email \in Emails :
         LET c == PatientCounts(appointments, email) IN c[2] + c[3] = c[1]
    /\ \A doctor_id \in DoctorIds \cup IndexesOfRole("doctor") :
         LET c == DoctorCounts(appointments, doctor_id) IN c[2] + c[3] = c[1]

\* a booking that records an appointment raises total and pending of its patient
\* and of its doctor_id by one, and no other count
BookingCounts ==
    \A text \in DoctorIdInputs, form \in BookingForms, now \in Timestamps,
       delivered \in BOOLEAN :
        LET after == book_appointment_post(text, form, now, delivered).appointments IN
        after # appointments =>
            /\ Len(after) = Len(appointments) + 1
            /\ after[Len(after)].patient_email = session.user
            /\ after[Len(after)].doctor_id = PyInt(text).value
            /\ \A email \in Emails :
                 LET was == PatientCounts(appointments, email)
                     is == PatientCounts(after, email) IN
                 IF email = session.user
                 THEN is = <<was[1] + 1, was[2] + 1, was[3]>>
                 ELSE is = was
            /\ \A doctor_id \in DoctorIds \cup IndexesOfRole("doctor") :
                 LET was == DoctorCounts(appointments, doctor_id)
                     is == DoctorCounts(after, doctor_id) IN
                 IF doctor_id = PyInt(text).value
                 THEN is = <<was[1] + 1, was[2] + 1, was[3]>>
                 ELSE is = was

\* the diagnosis of a Pending appointment moves one appointment from pending to
\* completed for its patient and for its doctor_id; a later one moves nothing
DiagnosisCounts ==
    \A appointment_id \in ApptIds, form \in DiagnosisForms :
        LET after == submit_diagnosis(appointment_id, form).appointments
            k == FindAppointment(appointment_id) IN
        (DoctorSession /\ k # 0) =>
            LET first == appointments[k].status = "Pending"
                moved == IF first THEN 1 ELSE 0 IN
            /\ after[k].status = "Completed"
            /\ \A email \in Emails :
                 LET was == PatientCounts(appointments, email)
                     is == PatientCounts(after, email) IN
                 IF email = appointments[k].patient_email
                 THEN is = <<was[1], was[2] - moved, was[3] + moved>>
                 ELSE is = was
            /\ \A doctor_id \in DoctorIds \cup IndexesOfRole("doctor") :
                 LET was == DoctorCounts(appointments, doctor_id)
                     is == DoctorCounts(after, doctor_id) IN
                 IF doctor_id = appointments[k].doctor_id
                 THEN is = <<was[1], was[2] - moved, was[3] + moved>>
                 ELSE is = was

\* C13: the dashboard counts are derived from the ledger: for every patient and
\* for every doctor, total is the number of ledger appointments listed for them,
\* pending and completed the numbers of those that are Pending and Completed, and
\* pending + completed = total; a booking raises the patient's and the doctor's
\* total and pending by one; a first diagnosis moves exactly one appointment from
\* pending to completed for both.
C13_DashboardCounts == DashboardsCount /\ BookingCounts /\ DiagnosisCounts

\* a doctor's dashboard with a Pending and a Completed appointment, after bookings
\* and a diagnosis
C13_Witness ==
    /\ DoctorSession
    /\ doctor_dashboard.resp.kind = "render"
    /\ Shown(doctor_dashboard.resp) = <<2, 1, 1>>

----------------------------------------------------------------------------
(* C14 *)

\* C14: every record of the user store has the role patient or the role doctor.
C14_RolePatientOrDoctor ==
    \A i \in UserIndexes : users[i].type \in {"patient", "doctor"}

----------------------------------------------------------------------------
(* C15 *)

\* C15: Forgot Password answers the same for every submitted email, registered or
\* not, and changes neither the user store, the ledger nor the session.
C15_ForgotPasswordGeneric ==
    \A e1, e2 \in Emails :
        /\ forgot_password_post(e1).resp = forgot_password_post(e2).resp
        /\ forgot_password_post(e1).users = users
        /\ forgot_password_post(e1).appointments = appointments
        /\ forgot_password_post(e1).session = session

----------------------------------------------------------------------------
(* C17 *)

ResultFields(a) == {a.diagnosis, a.treatment_plan, a.prescription}

\* C17: an appointment carries the fields diagnosis, treatment_plan and
\* prescription if and only if its status is Completed: a Pending appointment has
\* none of the three, a Completed one has all three, and there is no other status.
C17_ResultFieldsIffCompleted ==
    \A k \in LedgerIndexes :
        /\ appointments[k].status \in {"Pending", "Completed"}
        /\ appointments[k].status = "Pending" => ResultFields(appointments[k]) = {Absent}
        /\ appointments[k].status = "Completed" => Absent \notin ResultFields(appointments[k])

\* a ledger with a Pending appointment and a Completed one whose form left a field
\* out
C17_Witness ==
    /\ \E k \in LedgerIndexes : appointments[k].status = "Pending"
    /\ \E k \in LedgerIndexes :
         /\ appointments[k].status = "Completed"
         /\ None \in ResultFields(appointments[k])

----------------------------------------------------------------------------
(* C18 *)

\* C18: a doctor's Submit Diagnosis on an appointment that is already Completed is
\* not rejected: it reports success, the appointment now holds the submitted
\* diagnosis, treatment_plan and prescription in place of the stored ones, its
\* status stays Completed, and nothing else in the ledger changes.
C18_Resubmission ==
    \A appointment_id \in ApptIds, form \in DiagnosisForms :
        LET k == FindAppointment(appointment_id)
            out == submit_diagnosis(appointment_id, form) IN
        (DoctorSession /\ k # 0 /\ appointments[k].status = "Completed") =>
            /\ out.resp = Redirect("doctor_dashboard", "Diagnosis submitted successfully.")
            /\ out.appointments =
                 [appointments EXCEPT ![k].diagnosis = form.diagnosis,
                                      ![k].treatment_plan = form.treatment_plan,
                                      ![k].prescription = form.prescription]
            /\ out.appointments[k].status = "Completed"
            /\ out.users = users
            /\ out.session = session

\* a doctor session, a Completed appointment and a form that differs from what the
\* appointment holds
C18_Witness ==
    /\ DoctorSession
    /\ \E k \in LedgerIndexes, form \in DiagnosisForms :
         /\ appointments[k].status = "Completed"
         /\ appointments[k].diagnosis # form.diagnosis
         /\ appointments[k].prescription # form.prescription
         /\ submit_diagnosis(appointments[k].appointment_id, form).appointments[k].diagnosis
              = form.diagnosis

----------------------------------------------------------------------------
(* C16 *)

\* no patient and no doctor is logged in
LoggedOut == ~PatientSession /\ ~DoctorSession

\* what the role-gated operations would do in this state
GatedOutcomes ==
    {patient_dashboard, doctor_dashboard, book_appointment_get, patient_profile,
     doctor_profile}
    \cup {book_appointment_post(text, form, now, delivered) :
            text \in DoctorIdInputs, form \in BookingForms, now \in Timestamps,
            delivered \in BOOLEAN}
    \cup {submit_diagnosis(appointment_id, form) :
            appointment_id \in ApptIds, form \in DiagnosisForms}

\* the operation is refused and changes nothing
Refused(out) ==
    /\ SentToLogin(out.resp)
    /\ out.users = users
    /\ out.appointments = appointments
    /\ out.session = session

\* logout clears the session whatever it was, and a logged-out caller is refused
\* by every role-gated operation
LogoutClears ==
    /\ logout.session = NoSession
    /\ logout.users = users
    /\ logout.appointments = appointments
    /\ session = NoSession => LoggedOut
    /\ LoggedOut => \A out \in GatedOutcomes : Refused(out)

\* a step that ends the logged-out condition is a login with the credentials of a
\* registered patient or doctor
LoggedOutUntilLogin ==
    (LoggedOut /\ ~LoggedOut') =>
        \E role \in {"patient", "doctor"}, email \in Emails, password \in Passwords :
            /\ Registered(role, email, password)
            /\ login_post(role, email, password, TRUE).resp.flash = "Login successful!"
            /\ session' = [user |-> email, role |-> role]
            /\ UNCHANGED <<users, appointments>>

\* C16: logout clears the session from any state, and from a logout until the next
\* successful login every role-gated operation (the dashboards, Book Appointment,
\* Submit Diagnosis, the profiles) is refused and changes no state.
C16_LogoutClearsSession == [](LogoutClears) /\ [][LoggedOutUntilLogin]_vars

\* a logout after a patient's booking: the ledger is not empty and the session is
\* cleared
C16_Witness ==
    /\ session = NoSession
    /\ appointments # <<>>
    /\ IndexesOfRole("doctor") # {}

----------------------------------------------------------------------------
(* C19 *)

\* the step is an accepted signup: one record, built from the form, is appended
SignupStep ==
    \E form \in SignupForms, salt \in Salts :
        /\ SignupRejection(form) = None
        /\ users' = Append(users, NewUser(form, salt))
        /\ UNCHANGED <<appointments, session>>

\* the user positions an appointment stores
StoredPositions(a) == {a.doctor_id, a.patient_id} \cap (0 .. Len(users) - 1)

UsersAppendOnly ==
    /\ users' # users => SignupStep
    /\ (appointments' # appointments \/ session' # session) => users' = users
    /\ Len(users') >= Len(users)
    /\ \A i \in UserIndexes : users'[i] = users[i]
    /\ \A k \in LedgerIndexes : \A p \in StoredPositions(appointments[k]) :
         /\ p \in StoredPositions(appointments'[k])
         /\ users'[p + 1] = users[p + 1]

\* C19: the user store is append-only: only an accepted signup changes it, by one
\* record appended at the end; every step that changes the session or the ledger
\* (login, logout, booking, diagnosis) and every other step leaves every user
\* record in its place, so a position stored in an appointment as doctor_id or
\* patient_id denotes the same user in every later state.
C19_UsersAppendOnly == [][UsersAppendOnly]_vars

\* a user signed up behind the two users an appointment refers to by position
C19_Witness ==
    /\ Len(users) = 3
    /\ \E k \in LedgerIndexes :
         /\ appointments[k].patient_id = 0
         /\ appointments[k].doctor_id = 1
         /\ appointments[k].status = "Completed"

----------------------------------------------------------------------------
(* C20 *)

\* the records of the user store that carry the session's email
SessionUsers == {i \in UserIndexes : users[i].email = session.user}

\* the answers of the operations that look the session's user up
LookupAnswers ==
    {patient_dashboard.resp, doctor_dashboard.resp, patient_profile.resp,
     doctor_profile.resp}
    \cup {book_appointment_post(text, form, now, delivered).resp :
            text \in DoctorIdInputs, form \in BookingForms, now \in Timestamps,
            delivered \in BOOLEAN}

\* the answers a lookup that found nobody would give
LookupFailures ==
    {ServerError("TypeError"), ServerError("StopIteration"),
     Redirect("login", "Doctor not found."), Redirect("login", "Doctor profile not found.")}

\* C20: whenever a session exists, its email is the email of exactly one user of
\* the user store and its role is that user's role; so the lookup of the session's
\* user in the dashboards, the profiles and Book Appointment always finds a user.
C20_SessionNamesAUser ==
    /\ session.user = None <=> session.role = None
    /\ session.user # None =>
         /\ Cardinality(SessionUsers) = 1
         /\ \A i \in SessionUsers : users[i].type = session.role
         /\ LookupAnswers \cap LookupFailures = {}
    /\ PatientSession =>
         /\ patient_dashboard.resp.kind = "render"
         /\ patient_profile.resp.kind = "render"
         /\ users[patient_profile.resp.data.user].email = session.user
    /\ DoctorSession =>
         /\ doctor_dashboard.resp.kind = "render"
         /\ doctor_profile.resp.kind = "render"
         /\ users[doctor_profile.resp.data.user].email = session.user

\* a doctor logged in beside other users, after a booking
C20_Witness ==
    /\ DoctorSession
    /\ Len(users) >= 2
    /\ appointments # <<>>
    /\ doctor_profile.resp.kind = "render"

====
